---- MODULE Spec2Model ----
(***************************************************************************)
(* A model of http_status_server/response.py: the layered response         *)
(* configuration, the resolution of a response for (method, status, date), *)
(* the body encoders and the mutation API of ConfigurableResource.         *)
(*                                                                         *)
(* Representation                                                          *)
(*  - a Python dict whose keys are never iterated (the configuration, a    *)
(*    method block, a status block, a body mapping) is a function whose    *)
(*    DOMAIN is the set of its keys; the empty dict is <<>>;               *)
(*  - status keys are the strings "200", "400", "500" and "def" (TLC does  *)
(*    not compare integers with strings); Python's None is NONE;           *)
(*  - a headers dict is ordered: a sequence of [k, v] entries with         *)
(*    distinct k, in insertion order;                                      *)
(*  - a header value is [kind |-> "str" | "list" | "int", v |-> <<..>>]:   *)
(*    a str s is Str(s), a list of str is List(<<...>>), and kind "int"    *)
(*    stands for a value that is neither;                                  *)
(*  - a str that gets encoded is a sequence of code points, bytes are a    *)
(*    sequence of 0..255;                                                  *)
(*  - object identity: maps[0][k] is the very object maps[1][k] exactly    *)
(*    for the keys k in the variable shared.                               *)
(***************************************************************************)
EXTENDS Integers, Sequences, FiniteSets, TLC

VARIABLES
    maps0,     \* self._data.maps[0]: the overlay
    maps1,     \* self._data.maps[1]: the merged base configuration
    shared,    \* the keys k for which maps[0][k] is maps[1][k] (same object)
    config,    \* the configuration the resource was constructed from
    last,      \* the last call: [op, err, args]
    resp,      \* the response of the last get_response_to since the last mutation
    nops,      \* the number of mutation calls made so far
    defaults,  \* the module's _simple_config object as it is now
    calls      \* the mutation calls in progress on threads: their position and locals

vars == <<maps0, maps1, shared, config, last, resp, nops, defaults, calls>>

NONE == "None"

Empty == <<>>

\* ---------------------------------------------------------------- dicts

Truthy(d) == DOMAIN d # {}

Get(d, k, default) == IF k \in DOMAIN d THEN d[k] ELSE default

Put(d, k, val) == [x \in DOMAIN d \cup {k} |-> IF x = k THEN val ELSE d[x]]

\* ------------------------------------------------------ ordered headers

Str(s) == [kind |-> "str", v |-> <<s>>]

List(l) == [kind |-> "list", v |-> l]

NotAStr == [kind |-> "int", v |-> <<>>]

OdKeys(d) == {d[i].k : i \in DOMAIN d}

OdHas(d, k) == k \in OdKeys(d)

OdIndex(d, k) == CHOOSE i \in DOMAIN d : d[i].k = k

OdGet(d, k) == d[OdIndex(d, k)].v

OdSet(d, k, val) ==
    IF OdHas(d, k)
    THEN [d EXCEPT ![OdIndex(d, k)] = [k |-> k, v |-> val]]
    ELSE Append(d, [k |-> k, v |-> val])

RECURSIVE OdUpdate(_, _)
OdUpdate(d, e) ==
    IF e = <<>> THEN d
    ELSE OdUpdate(OdSet(d, Head(e).k, Head(e).v), Tail(e))

\* -------------------------------------------------------- body encoders

\* A content value: [kind |-> "str" | "bytes" | "null" | "int" | "object", d |-> <<..>>]
\* (d: the code points of a str, the bytes of a bytes, the digits' number of an int).
Text(cps) == [kind |-> "str", d |-> cps]

Bytes(bs) == [kind |-> "bytes", d |-> bs]

Null == [kind |-> "null", d |-> <<>>]

Num(n) == [kind |-> "int", d |-> <<n>>]

Unserializable == [kind |-> "object", d |-> <<>>]

Ok(bs) == [err |-> "none", data |-> bs]

Raise(e) == [err |-> e, data |-> <<>>]

\* str.encode('utf-8') of one code point (below 65536)
Utf8(cp) ==
    IF cp < 128 THEN <<cp>>
    ELSE IF cp < 2048 THEN <<192 + (cp \div 64), 128 + (cp % 64)>>
    ELSE <<224 + (cp \div 4096), 128 + ((cp \div 64) % 64), 128 + (cp % 64)>>

RECURSIVE EncodeUtf8(_)
EncodeUtf8(cps) ==
    IF cps = <<>> THEN <<>> ELSE Utf8(Head(cps)) \o EncodeUtf8(Tail(cps))

\* str.encode(enc): utf-8 and ascii are the codecs modelled; any other name, and
\* a code point ascii cannot represent, raises inside the try block
Encode(cps, enc) ==
    IF enc = "utf-8" THEN Ok(EncodeUtf8(cps))
    ELSE IF enc = "ascii" /\ \A i \in DOMAIN cps : cps[i] < 128 THEN Ok(cps)
    ELSE Raise("ConfigError")

_make_empty_body == Ok(<<>>)

_make_text_body(bodydata) ==
    LET body == Get(bodydata, "content", Text(<<>>))
        enc  == Get(bodydata, "encoding", "utf-8")
    IN  CASE body.kind = "str"   -> Encode(body.d, enc)
          [] body.kind = "bytes" -> Ok(body.d)
          [] body.kind = "null"  -> Ok(<<>>)
          [] OTHER               -> Raise("TypeError")

_make_bytes_body(bodydata) ==
    LET body == Get(bodydata, "content", Text(<<>>))
    IN  CASE body.kind = "str"   -> Encode(body.d, Get(bodydata, "encoding", "utf-8"))
          [] body.kind = "bytes" -> Ok(body.d)
          [] body.kind = "null"  -> Ok(<<>>)
          [] OTHER               -> Raise("TypeError")

HexDigit(n) == IF n < 10 THEN 48 + n ELSE 87 + n

\* json.dumps of one character of a str (ensure_ascii)
JsonChar(cp) ==
    IF cp = 34 THEN <<92, 34>>
    ELSE IF cp = 92 THEN <<92, 92>>
    ELSE IF cp < 128 THEN <<cp>>
    ELSE <<92, 117, HexDigit(cp \div 4096), HexDigit((cp \div 256) % 16),
           HexDigit((cp \div 16) % 16), HexDigit(cp % 16)>>

RECURSIVE JsonChars(_)
JsonChars(cps) ==
    IF cps = <<>> THEN <<>> ELSE JsonChar(Head(cps)) \o JsonChars(Tail(cps))

RECURSIVE Digits(_)
Digits(n) == IF n < 10 THEN <<48 + n>> ELSE Append(Digits(n \div 10), 48 + (n % 10))

JsonSerializable(data) == data.kind \in {"str", "null", "int"}

\* json.dumps(data): the JSON text, as code points
JsonDumps(data) ==
    CASE data.kind = "str"  -> <<34>> \o JsonChars(data.d) \o <<34>>
      [] data.kind = "int"  -> Digits(data.d[1])
      [] OTHER              -> <<110, 117, 108, 108>>

_make_json_body(bodydata) ==
    LET content == Get(bodydata, "content", Null)
    IN  IF JsonSerializable(content) THEN Ok(EncodeUtf8(JsonDumps(content)))
        ELSE Raise("TypeError")

\* self._mkbody.get(btype, self._make_bytes_body)(method, status, bdata)
MkBody(bdata) ==
    LET btype == Get(bdata, "type", "text")
    IN  CASE btype = "text" -> _make_text_body(bdata)
          [] btype = "json" -> _make_json_body(bdata)
          [] OTHER          -> _make_bytes_body(bdata)

\* contenttype is the value of headers.get("Content-Type"): a header value, or
\* NoCt when there is none
NoCt == [kind |-> "none", v |-> <<>>]

\* _make_body without the fallback to the "def" entry of the body mapping
_make_body_NoDefFallback(method, respdata, contenttype) ==
    IF method = "HEAD" THEN _make_empty_body
    ELSE
    LET falsy == contenttype.kind = "none" \/ contenttype.v = <<>>
        bodies == Get(respdata, "body", Empty)
    IN  IF ~Truthy(bodies) THEN _make_empty_body
        ELSE IF ~falsy /\ contenttype.kind # "str" THEN Raise("TypeError")
        ELSE
        LET bdata == Get(bodies, IF falsy THEN "def" ELSE contenttype.v[1], Empty)
        IN  IF ~Truthy(bdata) THEN _make_empty_body ELSE MkBody(bdata)

\* _make_body without the test for HEAD
_make_body_HeadToo(method, respdata, contenttype) ==
    LET falsy == contenttype.kind = "none" \/ contenttype.v = <<>>
        bodies == Get(respdata, "body", Empty)
    IN  IF ~Truthy(bodies) THEN _make_empty_body
        ELSE IF ~falsy /\ contenttype.kind # "str" THEN Raise("TypeError")
        ELSE
        LET ct == IF falsy THEN "def" ELSE contenttype.v[1]
            bdata == IF ct \notin DOMAIN bodies /\ ct # "def"
                     THEN Get(bodies, "def", Empty)
                     ELSE Get(bodies, ct, Empty)
        IN  IF ~Truthy(bdata) THEN _make_empty_body ELSE MkBody(bdata)

\* _make_body looking up "def" before the content type
_make_body_DefFirst(method, respdata, contenttype) ==
    IF method = "HEAD" THEN _make_empty_body
    ELSE
    LET bodies == Get(respdata, "body", Empty)
    IN  IF ~Truthy(bodies) THEN _make_empty_body
        ELSE IF "def" \in DOMAIN bodies /\ Truthy(bodies["def"]) THEN MkBody(bodies["def"])
        ELSE IF contenttype.kind = "str" /\ contenttype.v[1] \in DOMAIN bodies
        THEN MkBody(bodies[contenttype.v[1]])
        ELSE _make_empty_body

_make_body(method, respdata, contenttype) ==
    IF method = "HEAD" THEN _make_empty_body
    ELSE
    LET falsy == contenttype.kind = "none" \/ contenttype.v = <<>>
                 \/ (contenttype.kind = "str" /\ contenttype.v[1] = "")
        bodies == Get(respdata, "body", Empty)
    IN  IF ~Truthy(bodies) THEN _make_empty_body
        ELSE IF ~falsy /\ contenttype.kind # "str" THEN Raise("TypeError")
        ELSE
        LET ct == IF falsy THEN "def" ELSE contenttype.v[1]
            bdata == IF ct \notin DOMAIN bodies /\ ct # "def"
                     THEN Get(bodies, "def", Empty)
                     ELSE Get(bodies, ct, Empty)
        IN  IF ~Truthy(bdata) THEN _make_empty_body ELSE MkBody(bdata)

\* ------------------------------------------------------------ resolution

\* ChainMap.get over maps = <<maps[0], maps[1]>>; a plain dict cfg is <<Empty, cfg>>
DataGet(maps, key, default) ==
    IF key \in DOMAIN maps[1] THEN maps[1][key]
    ELSE IF key \in DOMAIN maps[2] THEN maps[2][key]
    ELSE default

Clock == {0, 1}

\* datetime.utcnow().strftime("%a, %d %b %Y %H:%M:%S %Z"): %Z of a naive datetime is ""
Strftime(t) ==
    IF t = 0 THEN "Tue, 03 Nov 2026 10:00:00 " ELSE "Tue, 03 Nov 2026 10:00:01 "

\* str.lower() on the date arguments the model draws
Lower(s) ==
    CASE s \in {"now", "NOW", "Now"} -> "now"
      [] s = "Today"                -> "today"
      [] OTHER                      -> s

\* DateLayer with the test "datestr is not None" in place of "if datestr"
DateLayer_NotNone(datestr, now) ==
    IF datestr = NONE THEN <<>>
    ELSE IF Lower(datestr) = "now" THEN <<[k |-> "Date", v |-> Str(Strftime(now))]>>
    ELSE <<[k |-> "Date", v |-> Str(datestr)]>>

DateLayer(datestr, now) ==
    IF datestr = NONE \/ datestr = "" THEN <<>>
    ELSE IF Lower(datestr) = "now" THEN <<[k |-> "Date", v |-> Str(Strftime(now))]>>
    ELSE <<[k |-> "Date", v |-> Str(datestr)]>>

\* SelectMethod with the test "bymeth is None" in place of "not bymeth"
SelectMethod_IfPresent(maps, method) ==
    IF method \in DOMAIN maps[1] \cup DOMAIN maps[2]
    THEN DataGet(maps, method, Empty)
    ELSE DataGet(maps, "def", Empty)

SelectMethod(maps, method) ==
    LET bymeth == DataGet(maps, method, Empty)
    IN  IF ~Truthy(bymeth) THEN DataGet(maps, "def", Empty) ELSE bymeth

\* the headers of the def method's entry for status, merged when bymeth has no
\* (truthy) entry for status
CrossLayer(maps, bymeth, status) ==
    LET own   == Get(bymeth, status, Empty)
        cross == Get(DataGet(maps, "def", Empty), status, Empty)
    IN  IF ~Truthy(own) /\ Truthy(cross) THEN Get(cross, "headers", Empty) ELSE <<>>

\* SelectStatus falling back to nothing in place of the block's def entry
SelectStatus_NoDef(bymeth, status) == Get(bymeth, status, Empty)

SelectStatus(bymeth, status) ==
    LET bystat == Get(bymeth, status, Empty)
    IN  IF ~Truthy(bystat) THEN Get(bymeth, "def", Empty) ELSE bystat

\* ResolveHeaders with the cross-fallback layer merged after the final status layer
ResolveHeaders_CrossLast(maps, method, status, datestr, now) ==
    LET bymeth == SelectMethod(maps, method)
        h1 == OdUpdate(DateLayer(datestr, now), DataGet(maps, "headers", Empty))
        h2 == OdUpdate(h1, Get(bymeth, "headers", Empty))
        h3 == OdUpdate(h2, Get(SelectStatus(bymeth, status), "headers", Empty))
    IN  OdUpdate(h3, CrossLayer(maps, bymeth, status))

ResolveHeaders(maps, method, status, datestr, now) ==
    LET bymeth == SelectMethod(maps, method)
        h1 == OdUpdate(DateLayer(datestr, now), DataGet(maps, "headers", Empty))
        h2 == OdUpdate(h1, Get(bymeth, "headers", Empty))
        h3 == OdUpdate(h2, CrossLayer(maps, bymeth, status))
    IN  OdUpdate(h3, Get(SelectStatus(bymeth, status), "headers", Empty))

\* the HTTPHeaderDict _make_resp fills: one add per value, so a name whose value is
\* an empty list gets no entry
RECURSIVE ToHeaderDict(_)
ToHeaderDict(headers) ==
    IF headers = <<>> THEN <<>>
    ELSE IF Head(headers).v.v = <<>> THEN ToHeaderDict(Tail(headers))
    ELSE <<[k |-> Head(headers).k, v |-> Head(headers).v.v]>> \o ToHeaderDict(Tail(headers))

_make_resp(method, status, headers, respcfg) ==
    LET ct   == IF OdHas(headers, "Content-Type") THEN OdGet(headers, "Content-Type") ELSE NoCt
        body == _make_body(method, respcfg, ct)
    IN  IF body.err # "none"
        THEN [err |-> body.err, status |-> status, headers |-> <<>>, data |-> <<>>]
        ELSE [err |-> "none", status |-> status, headers |-> ToHeaderDict(headers),
              data |-> body.data]

get_response_to(maps, method, status, datestr, now) ==
    _make_resp(method, status, ResolveHeaders(maps, method, status, datestr, now),
               SelectStatus(SelectMethod(maps, method), status))

\* ---------------------------------------------------------- construction

_simple_config ==
    [headers |-> <<[k |-> "Server", v |-> Str("http-status-server")],
                   [k |-> "Content-Type", v |-> Str("text/plain")]>>]

\* _merge_config setting every key of updates without merging mappings
_merge_config_Shallow(updates, defconf) ==
    [key \in DOMAIN defconf \cup DOMAIN updates |->
        IF key \notin DOMAIN updates THEN defconf[key] ELSE updates[key]]

\* _merge_config(updates, defconf): a deep copy of defconf in which every key of
\* updates is set; a key that is a mapping on both sides ("headers", whose values
\* are not mappings) is merged one level down, key by key
_merge_config(updates, defconf) ==
    [key \in DOMAIN defconf \cup DOMAIN updates |->
        IF key \notin DOMAIN updates THEN defconf[key]
        ELSE IF key \in DOMAIN defconf /\ key = "headers"
        THEN OdUpdate(defconf[key], updates[key])
        ELSE updates[key]]

\* ------------------------------------------------------------- mutation

\* str.upper() on the method arguments the model draws
Upper(s) ==
    CASE s = "get" -> "GET"
      [] s = "def" -> "DEF"
      [] OTHER     -> s

Falsy(arg) == arg = NONE \/ arg = ""

\* The store of a ConfigurableResource: [m0, m1, sh] = maps[0], maps[1] and the keys
\* at which both hold the same object.  A write through the object at maps[0][key]
\* is a write to maps[1][key] too when the object is shared.
WriteBack(st, key, val) ==
    [m0 |-> Put(st.m0, key, val),
     m1 |-> IF key \in st.sh THEN Put(st.m1, key, val) ELSE st.m1,
     sh |-> st.sh]

\* _get_cfg_for_upd(key): the node at maps[0][key], or a deep copy of maps[1][key]
\* (or an empty OrderedDict) stored at maps[0][key]
_get_cfg_for_upd(st, key) ==
    IF Truthy(Get(st.m0, key, Empty)) THEN st
    ELSE [m0 |-> Put(st.m0, key, Get(st.m1, key, Empty)),
          m1 |-> st.m1,
          sh |-> st.sh \ {key}]

\* the method argument as _get_headers_for uses it (upper-cased when given)
HdrMethod(method) == IF Falsy(method) THEN method ELSE Upper(method)

\* HdrKey sending every status-scoped update to the def method
HdrKey_DefForStatus(method, status) ==
    IF Falsy(status)
    THEN (IF Falsy(HdrMethod(method)) THEN "headers" ELSE HdrMethod(method))
    ELSE "def"

\* the key of the top-level node _get_headers_for updates
HdrKey(method, status) ==
    IF Falsy(HdrMethod(method))
    THEN (IF Falsy(status) THEN "headers" ELSE "def")
    ELSE HdrMethod(method)

\* the headers node _get_headers_for(method, status) returns, read in the store g
\* that _get_cfg_for_upd leaves (an absent node is the empty one setdefault makes)
HeadersNode(g, method, status) ==
    LET top == g.m0[HdrKey(method, status)]
    IN  IF Falsy(HdrMethod(method)) /\ Falsy(status) THEN top
        ELSE IF Falsy(status) THEN Get(top, "headers", <<>>)
        ELSE Get(Get(top, status, Empty), "headers", <<>>)

\* the store once the caller has made the headers node hdrs
PutHeadersNode(g, method, status, hdrs) ==
    LET key == HdrKey(method, status)
        top == g.m0[key]
    IN  IF Falsy(HdrMethod(method)) /\ Falsy(status) THEN WriteBack(g, key, hdrs)
        ELSE IF Falsy(status) THEN WriteBack(g, key, Put(top, "headers", hdrs))
        ELSE WriteBack(g, key,
                 Put(top, status, Put(Get(top, status, Empty), "headers", hdrs)))

\* _get_headers_for(method, status): the store in which the node exists
_get_headers_for(st, method, status) ==
    LET g == _get_cfg_for_upd(st, HdrKey(method, status))
    IN  PutHeadersNode(g, method, status, HeadersNode(g, method, status))

ValidHeaderVal(val) == val.kind \in {"str", "list"}

\* hdrs[header_name] = val
SetHeader(hdrs, name, val) == OdSet(hdrs, name, val)

\* AddHeader putting the new values in place of the stored ones
AddHeader_Replace(hdrs, name, val) == OdSet(hdrs, name, List(val.v))

\* add_header_for's update of the node: promote a str to a list, then append
AddHeader(hdrs, name, val) ==
    LET old == IF OdHas(hdrs, name) THEN OdGet(hdrs, name).v ELSE <<>>
    IN  OdSet(hdrs, name, List(old \o val.v))

RECURSIVE PutAll(_, _, _)
PutAll(bodies, cts, bodycfg) ==
    IF cts = <<>> THEN bodies
    ELSE PutAll(Put(bodies, Head(cts), bodycfg), Tail(cts), bodycfg)

\* _set_body(bodycfg, method, status, content_types) with _get_bodies_for: the
\* method node is the one self._data.get finds, in maps[0] or else in maps[1]
\* (the object itself, not a copy), stored at maps[0][method]
_set_body(st, bodycfg, method, status, content_types) ==
    LET cts  == IF content_types.kind = "str" THEN <<content_types.v[1]>> ELSE content_types.v
        key  == IF ~Falsy(method) /\ method # "def" THEN Upper(method) ELSE "def"
        meth == DataGet(<<st.m0, st.m1>>, key, Empty)
        g    == [m0 |-> Put(st.m0, key, meth),
                 m1 |-> st.m1,
                 sh |-> IF key \in DOMAIN st.m0 THEN st.sh
                        ELSE IF key \in DOMAIN st.m1 THEN st.sh \cup {key}
                        ELSE st.sh \ {key}]
        skey == IF Falsy(status) THEN "def" ELSE status
        stat == Get(meth, skey, Empty)
        out  == Get(stat, "body", Empty)
    IN  WriteBack(g, key, Put(meth, skey, Put(stat, "body", PutAll(out, cts, bodycfg))))

\* ------------------------------------------------------ inputs and bounds

ItsDefault == <<105, 116, 39, 115, 32, 100, 101, 102, 97, 117, 108, 116>>

ItsText == <<105, 116, 39, 115, 32, 116, 101, 120, 116>>

Ready == <<82, 101, 97, 100, 121, 33>>

ErrorMsg == <<69, 114, 114, 111, 114, 33>>

Cafe == <<99, 97, 102, 233>>

H(name, val) == [k |-> name, v |-> val]

TextBody(cps) == [type |-> "text", content |-> Text(cps)]

\* the number of mutation calls a behaviour makes
MaxOps == 2

\* the configurations a ConfigurableResource is constructed from
ConfigIds == {"none", "test", "blocks"}

CtorArg(id) ==
    CASE id = "none" -> [none |-> TRUE, cfg |-> Empty]
      [] id = "test" -> [none |-> FALSE,
                         cfg |-> [headers |-> <<H("TestResource", Str("true"))>>]]
      [] OTHER ->
         [none |-> FALSE,
          cfg |-> [def |-> [headers |-> <<H("X-Test", Str("def"))>>,
                            def |-> [body |-> [def |-> TextBody(ItsDefault)]]],
                   GET |-> ("200" :> [headers |-> <<H("X-Test", Str("get200"))>>])]]

\* line 255: out is a deep copy of defconf, so what lines 259 and 261 write goes
\* to the copy and defconf is afterwards what it was
DefconfAfterMerge(updates, defconf) == defconf

\* the module's _simple_config once a resource has been constructed from arg
DefaultsAfter(arg) ==
    IF arg.none THEN _simple_config ELSE DefconfAfterMerge(arg.cfg, _simple_config)

\* a constructor that takes the configuration as it is given, without _simple_config
Construct_NoDefaults(arg) == IF arg.none THEN Empty ELSE arg.cfg

\* SimpleResource.__init__ and ConfigurableResource.__init__: the base configuration
\* for the constructor argument arg = [none, cfg] (none: config is None)
Construct(arg) == IF arg.none THEN _simple_config ELSE _merge_config(arg.cfg, _simple_config)

\* a method argument is upper-cased by the setters: "get" addresses the GET block
MutMethods == {NONE, "get"}

MutStatuses == {NONE, "200"}

HeaderNames == {"Content-Type", "X-Test"}

HeaderVals == {Str("application/json"), List(<<"yellow", "green">>), List(<<>>), NotAStr}

HeaderMaps ==
    {<<H("Content-Type", Str("text/json")), H("X-Test", Str("red"))>>,
     <<H("X-Test", Str("red")), H("Content-Type", NotAStr)>>}

JsonData == {Text(Ready), Unserializable}

BytesData == {Bytes(ErrorMsg), Text(ErrorMsg)}

TextData == {Text(Cafe)}

\* the content_types arguments: each setter's default, and an explicit one
JsonCts == {List(<<"def", "application/json">>), Str("text/plain")}

BytesCts == {List(<<"application/octet-stream">>), List(<<"def">>)}

TextCts == {List(<<"text/plain">>)}

ReqMethods == {"GET", "PUT", "HEAD"}

ReqStatuses == {"200", "400"}

DateArgs == {"Today"}

\* ------------------------------------------------------------- the state

NoResp == [set |-> FALSE]

\* every call runs to its end before the next one starts
NoCalls == <<>>

Store == [m0 |-> maps0, m1 |-> maps1, sh |-> shared]

Data == <<maps0, maps1>>

InitWith(arg) ==
    /\ config = arg
    /\ maps0 = Empty
    /\ maps1 = Construct(arg)
    /\ shared = {}
    /\ last = [op |-> "__init__", err |-> "none"]
    /\ resp = NoResp
    /\ nops = 0
    /\ defaults = DefaultsAfter(arg)
    /\ calls = NoCalls

Init == \E id \in ConfigIds : InitWith(CtorArg(id))

Commit(st, op) ==
    /\ maps0' = st.m0
    /\ maps1' = st.m1
    /\ shared' = st.sh
    /\ last' = [op |-> op, err |-> "none"]
    /\ resp' = NoResp
    /\ nops' = nops + 1
    /\ UNCHANGED <<config, defaults, calls>>

Reject(op, e) ==
    /\ last' = [op |-> op, err |-> e]
    /\ resp' = NoResp
    /\ nops' = nops + 1
    /\ UNCHANGED <<maps0, maps1, shared, config, defaults, calls>>

set_header_for(header_name, val, method, status) ==
    /\ nops < MaxOps
    /\ IF ~ValidHeaderVal(val) THEN Reject("set_header_for", "ValueError")
       ELSE LET g    == _get_headers_for(Store, method, status)
                hdrs == HeadersNode(g, method, status)
            IN  Commit(PutHeadersNode(g, method, status, SetHeader(hdrs, header_name, val)),
                       "set_header_for")

\* set_headers_for storing the valid entries of the batch before it raises
set_headers_for_Partial(headers, method, status) ==
    /\ nops < MaxOps
    /\ LET g    == _get_headers_for(Store, method, status)
           hdrs == HeadersNode(g, method, status)
           ok   == SelectSeq(headers, LAMBDA e : ValidHeaderVal(e.v))
           st   == PutHeadersNode(g, method, status, OdUpdate(hdrs, ok))
       IN  /\ maps0' = st.m0
           /\ maps1' = st.m1
           /\ shared' = st.sh
           /\ last' = [op |-> "set_headers_for",
                       err |-> IF ok = headers THEN "none" ELSE "ValueError"]
           /\ resp' = NoResp
           /\ nops' = nops + 1
           /\ UNCHANGED <<config, defaults, calls>>

set_headers_for(headers, method, status) ==
    /\ nops < MaxOps
    /\ IF \E i \in DOMAIN headers : ~ValidHeaderVal(headers[i].v)
       THEN Reject("set_headers_for", "ValueError")
       ELSE LET g    == _get_headers_for(Store, method, status)
                hdrs == HeadersNode(g, method, status)
            IN  Commit(PutHeadersNode(g, method, status, OdUpdate(hdrs, headers)),
                       "set_headers_for")

add_header_for(header_name, val, method, status) ==
    /\ nops < MaxOps
    /\ IF ~ValidHeaderVal(val) THEN Reject("add_header_for", "ValueError")
       ELSE LET g    == _get_headers_for(Store, method, status)
                hdrs == HeadersNode(g, method, status)
            IN  Commit(PutHeadersNode(g, method, status, AddHeader(hdrs, header_name, val)),
                       "add_header_for")

set_json_body_for(data, method, status, content_types) ==
    /\ nops < MaxOps
    /\ IF ~JsonSerializable(data) THEN Reject("set_json_body_for", "TypeError")
       ELSE Commit(_set_body(Store, [type |-> "json", content |-> data],
                             method, status, content_types),
                   "set_json_body_for")

\* line 551 reads the name data, which set_text_body_for does not define
set_text_body_for(text, method, status, content_types) ==
    /\ nops < MaxOps
    /\ Reject("set_text_body_for", "NameError")

set_bytes_body_for(data, method, status, content_types) ==
    /\ nops < MaxOps
    /\ IF data.kind # "bytes" THEN Reject("set_bytes_body_for", "ValueError")
       ELSE Commit(_set_body(Store, [type |-> "bytes", content |-> data],
                             method, status, content_types),
                   "set_bytes_body_for")

reset ==
    /\ nops < MaxOps
    /\ Commit([m0 |-> Empty, m1 |-> maps1, sh |-> {}], "reset")

\* get_response_to collecting the layers in the "headers" object of the
\* configuration itself (hdrs = self._data.get('headers')) rather than in a new one
GetResponseTo_SharedHeaders(method, status, datestr, now) ==
    LET r    == get_response_to(Data, method, status, datestr, now)
        hdrs == ResolveHeaders(Data, method, status, datestr, now)
    IN  /\ resp' = [set |-> TRUE, method |-> method, status |-> status,
                    datestr |-> datestr, now |-> now, r |-> r]
        /\ last' = [op |-> "get_response_to", err |-> r.err]
        /\ IF "headers" \in DOMAIN maps0
           THEN maps0' = Put(maps0, "headers", hdrs) /\ UNCHANGED maps1
           ELSE maps1' = Put(maps1, "headers", hdrs) /\ UNCHANGED maps0
        /\ UNCHANGED <<shared, config, defaults, nops, calls>>

GetResponseTo(method, status, datestr, now) ==
    LET r == get_response_to(Data, method, status, datestr, now)
    IN  /\ resp' = [set |-> TRUE, method |-> method, status |-> status,
                    datestr |-> datestr, now |-> now, r |-> r]
        /\ last' = [op |-> "get_response_to", err |-> r.err]
        /\ UNCHANGED <<maps0, maps1, shared, config, defaults, nops, calls>>

Next ==
    \/ \E n \in HeaderNames, v \in HeaderVals, m \in MutMethods, s \in MutStatuses :
          set_header_for(n, v, m, s)
    \/ \E h \in HeaderMaps, m \in MutMethods, s \in MutStatuses :
          set_headers_for(h, m, s)
    \/ \E n \in HeaderNames, v \in HeaderVals, m \in MutMethods, s \in MutStatuses :
          add_header_for(n, v, m, s)
    \/ \E d \in JsonData, m \in MutMethods, s \in MutStatuses, c \in JsonCts :
          set_json_body_for(d, m, s, c)
    \/ \E d \in TextData, m \in MutMethods, s \in MutStatuses, c \in TextCts :
          set_text_body_for(d, m, s, c)
    \/ \E d \in BytesData, m \in MutMethods, s \in MutStatuses, c \in BytesCts :
          set_bytes_body_for(d, m, s, c)
    \/ reset
    \/ \E m \in ReqMethods, s \in ReqStatuses, d \in DateArgs :
          GetResponseTo(m, s, d, 0)

Spec == Init /\ [][Next]_vars

\* ------------------------------------- a SimpleResource and its requests

\* The configurations a SimpleResource is constructed from: global headers g, and
\* for the def method and for GET either no entry or a block with method-level
\* headers h, an entry for status 200 and an entry for status def.

GlobalOpts == 0 .. 2

HeaderOpts == 0 .. 1

Stat200Opts == {0, 1, 2, 4}

StatDefOpts == {0, 2, 3}

C10Bodies == ("def" :> TextBody(ItsDefault)) @@ ("text/plain" :> TextBody(ItsText))

\* a status entry: 1 the empty dict, 2 headers only, 3 a body mapping only,
\* 4 headers (among them an empty list) and a body
StatOpt(i, tag) ==
    CASE i = 1 -> Empty
      [] i = 2 -> [headers |-> <<H("X-Test", Str(tag))>>]
      [] i = 3 -> [body |-> C10Bodies]
      [] OTHER -> [headers |-> <<H("Content-Type", Str("application/json")),
                                 H("X-Test", List(<<>>))>>,
                   body |-> ("application/json" :> [type |-> "json", content |-> Text(Ready)])]

\* the X-Test value that tells where a header comes from
TagOf(block, key) ==
    CASE block = "def" /\ key = "headers" -> "def/headers"
      [] block = "def" /\ key = "200"     -> "def/200"
      [] block = "def"                    -> "def/def"
      [] key = "headers"                  -> "GET/headers"
      [] key = "200"                      -> "GET/200"
      [] OTHER                            -> "GET/def"

BlockOpt(h, s200, sdef, block) ==
    [key \in (IF h = 0 THEN {} ELSE {"headers"})
             \cup (IF s200 = 0 THEN {} ELSE {"200"})
             \cup (IF sdef = 0 THEN {} ELSE {"def"}) |->
        CASE key = "headers" -> <<H("X-Test", Str(TagOf(block, key)))>>
          [] key = "200"     -> StatOpt(s200, TagOf(block, key))
          [] OTHER           -> StatOpt(sdef, TagOf(block, key))]

GlobalOpt(g) ==
    IF g = 1 THEN <<H("X-Test", Str("global"))>>
    ELSE <<H("Content-Type", Str("application/json")), H("Date", Str("Yesterday")),
           H("X-Test", List(<<"red", "green">>))>>

\* b = [on, h, s200, sdef]: whether the configuration has the entry, and the block
SimpleArg(g, d, m) ==
    [none |-> g = 0 /\ ~d.on /\ ~m.on,
     cfg  |-> [key \in (IF g = 0 THEN {} ELSE {"headers"})
                       \cup (IF d.on THEN {"def"} ELSE {})
                       \cup (IF m.on THEN {"GET"} ELSE {}) |->
                  CASE key = "headers" -> GlobalOpt(g)
                    [] key = "def"     -> BlockOpt(d.h, d.s200, d.sdef, "def")
                    [] OTHER           -> BlockOpt(m.h, m.s200, m.sdef, "GET")]]

BlockChoices ==
    {[on |-> FALSE, h |-> 0, s200 |-> 0, sdef |-> 0]}
    \cup [on : {TRUE}, h : HeaderOpts, s200 : Stat200Opts, sdef : StatDefOpts]

SimpleMethods == {"GET", "POST", "HEAD"}

SimpleStatuses == {"200", "500"}

SimpleDates == {NONE, "", "NOW", "Today"}

InitSimple ==
    \E g \in GlobalOpts, d \in BlockChoices, m \in BlockChoices :
        InitWith(SimpleArg(g, d, m))

\* get_response_to leaves the resource as it is: a behaviour is one construction
\* and one call
NextSimple ==
    \E m \in SimpleMethods, s \in SimpleStatuses, d \in SimpleDates, t \in Clock :
        /\ ~resp.set
        /\ Lower(d) # "now" => t = 0
        /\ GetResponseTo(m, s, d, t)

SpecSimple == InitSimple /\ [][NextSimple]_vars

\* ------------------------------------------------------------ serialization

\* Resource.__init__: the version label of the status line
version_string == "HTTP/1.1"

\* What send_response writes before the body is the sequence of the pieces its
\* f-strings and "\r\n" are made of, in the order written; a status is modelled by
\* its decimal numeral, which is what formatting it gives.
writeln(b) == b \o <<"\r\n">>

\* resp.headers.items() yields one (name, value) pair per value of a name
RECURSIVE ValueLines(_, _)
ValueLines(nm, vals) ==
    IF vals = <<>> THEN <<>>
    ELSE writeln(<<nm, ": ", Head(vals)>>) \o ValueLines(nm, Tail(vals))

\* the header lines with one line per name, for its first value only
RECURSIVE HeaderLines_OnePerName(_)
HeaderLines_OnePerName(headers) ==
    IF headers = <<>> THEN <<>>
    ELSE writeln(<<Head(headers).k, ": ", Head(headers).v[1]>>)
             \o HeaderLines_OnePerName(Tail(headers))

RECURSIVE HeaderLines(_)
HeaderLines(headers) ==
    IF headers = <<>> THEN <<>>
    ELSE ValueLines(Head(headers).k, Head(headers).v) \o HeaderLines(Tail(headers))

\* get_encoding_from_headers(resp.headers) or 'utf-8', on the content types drawn:
\* no charset parameter, so ISO-8859-1 for a text type and utf-8 otherwise
BodyEncoding(headers) ==
    IF \E i \in DOMAIN headers :
           /\ headers[i].k = "Content-Type"
           /\ \E j \in DOMAIN headers[i].v : headers[i].v[j] \in {"text/plain", "text/json"}
    THEN "ISO-8859-1"
    ELSE "utf-8"

\* bytes.decode('utf-8') for sequences of up to three bytes per code point
RECURSIVE Utf8Decode(_)
Utf8Decode(bs) ==
    IF bs = <<>> THEN [ok |-> TRUE, cps |-> <<>>]
    ELSE LET b == Head(bs)
             n == IF b < 128 THEN 1 ELSE IF b \in 194 .. 223 THEN 2
                  ELSE IF b \in 224 .. 239 THEN 3 ELSE 0
         IN  IF n = 0 \/ Len(bs) < n \/ \E i \in 2 .. n : bs[i] \notin 128 .. 191
             THEN [ok |-> FALSE, cps |-> <<>>]
             ELSE LET cp   == CASE n = 1 -> b
                                [] n = 2 -> (b - 192) * 64 + (bs[2] - 128)
                                [] OTHER -> (b - 224) * 4096 + (bs[2] - 128) * 64 + (bs[3] - 128)
                      rest == Utf8Decode(SubSeq(bs, n + 1, Len(bs)))
                  IN  [ok |-> rest.ok, cps |-> <<cp>> \o rest.cps]

\* data.decode(enc): every byte is a code point of ISO-8859-1
Decode(data, enc) ==
    IF enc = "ISO-8859-1" THEN [ok |-> TRUE, cps |-> data] ELSE Utf8Decode(data)

\* the sinks: "text" an io.TextIOBase (the StringIO of respond), "bytes" any other
Sinks == {"text", "bytes"}

\* send_response(fp, resp): [err, head, body], head the pieces written before the
\* body (encoded to UTF-8 for a bytes sink), body what the last write is given
send_response(sink, r) ==
    LET head == writeln(<<version_string, " ", r.status>>)
                    \o HeaderLines(r.headers) \o writeln(<<>>)
        text == Decode(r.data, BodyEncoding(r.headers))
    IN  IF sink = "bytes" THEN [err |-> "none", head |-> head, body |-> Bytes(r.data)]
        ELSE IF text.ok THEN [err |-> "none", head |-> head, body |-> Text(text.cps)]
        ELSE [err |-> "UnicodeDecodeError", head |-> head, body |-> Text(<<>>)]

\* Resource.send(fp, method, status, datestr), and respond() for the text sink
send(sink, method, status, datestr, now) ==
    LET r   == get_response_to(Data, method, status, datestr, now)
        out == IF r.err = "none" THEN send_response(sink, r)
               ELSE [err |-> r.err, head |-> <<>>, body |-> Bytes(<<>>)]
    IN  /\ resp' = [set |-> TRUE, method |-> method, status |-> status,
                    datestr |-> datestr, now |-> now, r |-> r, sink |-> sink, out |-> out]
        /\ last' = [op |-> IF sink = "text" THEN "respond" ELSE "send", err |-> out.err]
        /\ UNCHANGED <<maps0, maps1, shared, config, defaults, nops, calls>>

SendStatuses == {"200", "202"}

SendDates == {NONE, "Today"}

\* one construction of a SimpleResource and one call of send or respond
NextSend ==
    \E sink \in Sinks, m \in SimpleMethods, s \in SendStatuses, d \in SendDates :
        /\ ~resp.set
        /\ send(sink, m, s, d, 0)

SpecSend == InitSimple /\ [][NextSend]_vars

\* ------------------------------------------- reads between the mutation calls

ReadMethods == {"GET"}

ReadStatuses == {"200"}

\* a literal date and the date of the clock
ReadDates == {"Today", "now"}

\* a ConfigurableResource with its mutation calls and, at any time of the clock,
\* calls of get_response_to, send (a byte stream) and respond (a text stream)
NextReads ==
    \/ Next
    \/ \E m \in ReadMethods, s \in ReadStatuses, d \in ReadDates, now \in Clock :
          GetResponseTo(m, s, d, now)
    \/ \E sink \in Sinks, m \in ReadMethods, s \in ReadStatuses, now \in Clock :
          send(sink, m, s, "Today", now)

SpecReads == Init /\ [][NextReads]_vars

\* ------------------------------------------- two header setters on threads

\* Two threads call set_header_for on one ConfigurableResource, each with a name
\* of its own.  A call is the steps of _get_cfg_for_upd and the write to the node:
\*   "idle"  -> line 370, out = self._data.maps[0].get(key)
\*   "store" -> lines 372-375, out = deepcopy(...) or OrderedDict(); self._data[key] = out
\*   "write" -> lines 356-365 and 345, the setdefaults and hdrs[header_name] = val, all
\*              on the object out (each an atomic operation of a dict)
\* calls.ref[key] names the object at maps[0][key]: 0 for one that was there before
\* the threads started, t for the one thread t stored; calls.thr[t].out is the
\* object thread t holds.
Threads == {1, 2}

ThreadHeader(t) == IF t = 1 THEN [name |-> "X-One", val |-> Str("1")]
                   ELSE [name |-> "X-Two", val |-> Str("2")]

Scopes == MutMethods \X MutStatuses

\* the overlay before the threads start: nothing set, or one header set at a scope
PreScopes == {<<"-", "-">>} \cup Scopes

PreStore(arg, pre) ==
    LET st == [m0 |-> Empty, m1 |-> Construct(arg), sh |-> {}]
    IN  IF pre = <<"-", "-">> THEN st
        ELSE LET g == _get_headers_for(st, pre[1], pre[2])
             IN  PutHeadersNode(g, pre[1], pre[2],
                     SetHeader(HeadersNode(g, pre[1], pre[2]), "X-Zero", Str("0")))

InitThreads ==
    \E id \in ConfigIds, pre \in PreScopes, sc1 \in Scopes, sc2 \in Scopes,
       serialized \in BOOLEAN :
        LET st == PreStore(CtorArg(id), pre)
        IN  /\ config = CtorArg(id)
            /\ maps0 = st.m0
            /\ maps1 = st.m1
            /\ shared = {}
            /\ last = [op |-> "__init__", err |-> "none"]
            /\ resp = NoResp
            /\ nops = 0
            /\ defaults = DefaultsAfter(CtorArg(id))
            /\ calls = [serialized |-> serialized,
                        pre |-> DOMAIN st.m0,
                        ref |-> [k \in DOMAIN st.m0 |-> 0],
                        thr |-> [t \in Threads |->
                                    [method |-> (IF t = 1 THEN sc1 ELSE sc2)[1],
                                     status |-> (IF t = 1 THEN sc1 ELSE sc2)[2],
                                     pc |-> "idle", out |-> 0]]]

ThreadKey(t) == HdrKey(calls.thr[t].method, calls.thr[t].status)

\* scheduling without the external lock: any thread may take its next step
MayStep_Always(t) == TRUE

\* with calls serialized a thread starts only when no other call is under way
MayStep(t) ==
    (calls.serialized /\ calls.thr[t].pc = "idle") =>
        \A u \in Threads \ {t} : calls.thr[u].pc \in {"idle", "done"}

\* line 370-371: read the overlay entry and test it
CfgRead(t) ==
    /\ calls.thr[t].pc = "idle"
    /\ MayStep(t)
    /\ LET out == Get(maps0, ThreadKey(t), Empty)
       IN  calls' = IF Truthy(out)
                    THEN [calls EXCEPT !.thr[t].pc = "write",
                                       !.thr[t].out = calls.ref[ThreadKey(t)]]
                    ELSE [calls EXCEPT !.thr[t].pc = "store"]
    /\ UNCHANGED <<maps0, maps1, shared, config, defaults, last, resp, nops>>

\* lines 372-375: copy the base's entry (or make an empty one) and store it
CfgStore(t) ==
    /\ calls.thr[t].pc = "store"
    /\ maps0' = Put(maps0, ThreadKey(t), Get(maps1, ThreadKey(t), Empty))
    /\ calls' = [calls EXCEPT !.thr[t].pc = "write", !.thr[t].out = t,
                              !.ref = Put(calls.ref, ThreadKey(t), t)]
    /\ UNCHANGED <<maps1, shared, config, defaults, last, resp, nops>>

\* lines 356-365, 345: create the nodes below out and set the header in out, which
\* is the overlay's entry only if no other thread has stored one since
NodeWrite(t) ==
    /\ calls.thr[t].pc = "write"
    /\ LET c == calls.thr[t]
           g == [m0 |-> maps0, m1 |-> maps1, sh |-> shared]
           h == ThreadHeader(t)
       IN  maps0' = IF calls.ref[ThreadKey(t)] = c.out
                    THEN PutHeadersNode(g, c.method, c.status,
                             SetHeader(HeadersNode(g, c.method, c.status), h.name, h.val)).m0
                    ELSE maps0
    /\ calls' = [calls EXCEPT !.thr[t].pc = "done"]
    /\ last' = [op |-> "set_header_for", err |-> "none"]
    /\ nops' = nops + 1
    /\ UNCHANGED <<maps1, shared, config, defaults, resp>>

NextThreads ==
    \E t \in Threads : CfgRead(t) \/ CfgStore(t) \/ NodeWrite(t)

SpecThreads == InitThreads /\ [][NextThreads]_vars

\* ------------------------------------------------------------ the claims

\* the last response and its request
R == resp.r

Answered == resp.set /\ R.err = "none"

RespNames(r) == {r.headers[i].k : i \in DOMAIN r.headers}

RespValue(r, name) == r.headers[CHOOSE i \in DOMAIN r.headers : r.headers[i].k = name].v

\* the five header layers of the last request, in the order of the merge
Layers ==
    LET bymeth == SelectMethod(Data, resp.method)
    IN  <<DateLayer(resp.datestr, resp.now),
          DataGet(Data, "headers", Empty),
          Get(bymeth, "headers", Empty),
          CrossLayer(Data, bymeth, resp.status),
          Get(SelectStatus(bymeth, resp.status), "headers", Empty)>>

LayerNames(L) == UNION {OdKeys(L[i]) : i \in DOMAIN L}

Latest(L, name) ==
    LET i == CHOOSE j \in DOMAIN L :
                 /\ OdHas(L[j], name)
                 /\ \A l \in DOMAIN L : OdHas(L[l], name) => l <= j
    IN  OdGet(L[i], name)

\* C3 (as claimed): the value of the latest layer naming a header is its resolved
\* value, and every name of an applied layer is present in the response.
C3_AsClaimed ==
    Answered =>
        LET L == Layers
        IN  /\ RespNames(R) = LayerNames(L)
            /\ \A name \in LayerNames(L) : RespValue(R, name) = Latest(L, name).v

\* C3 (amended): the five layers are merged in order and the latest layer naming a
\* header decides it: its value or values are the response's, except that a name
\* whose deciding value is an empty list is absent from the response.
C3_LatestLayerWins ==
    Answered =>
        LET L == Layers
        IN  /\ RespNames(R) = {name \in LayerNames(L) : Latest(L, name).v # <<>>}
            /\ \A name \in RespNames(R) : RespValue(R, name) = Latest(L, name).v

\* a header named by the global, the method, the cross-fallback and the final
\* status layer, resolved to the final layer's value
C3_Witness ==
    /\ Answered
    /\ LET L == Layers
       IN  /\ \A i \in 2 .. 5 : OdHas(L[i], "X-Test")
           /\ OdGet(L[4], "X-Test") # OdGet(L[5], "X-Test")
           /\ RespValue(R, "X-Test") = OdGet(L[5], "X-Test").v

\* whether the response carries name with the value or values of val (a name whose
\* value is an empty list is not carried)
Carries(r, name, val) ==
    IF val.v = <<>> THEN name \notin RespNames(r)
    ELSE name \in RespNames(r) /\ RespValue(r, name) = val.v

\* the response's headers are those of the layers L, the latest layer deciding
MergedFrom(r, L) ==
    /\ RespNames(r) \subseteq LayerNames(L)
    /\ \A name \in LayerNames(L) : Carries(r, name, Latest(L, name))

CtOf(L) == IF "Content-Type" \in LayerNames(L) THEN Latest(L, "Content-Type") ELSE NoCt

DefBlock == DataGet(Data, "def", Empty)

C4_Pre ==
    /\ Answered
    /\ resp.status \notin DOMAIN SelectMethod(Data, resp.method)
    /\ resp.status \in DOMAIN DefBlock

StripDef(m) ==
    IF "def" \in DOMAIN m
    THEN Put(m, "def", [key \in DOMAIN m["def"] \ {"headers", "def"} |-> m["def"][key]])
    ELSE m

C6_AsClaimed ==
    Answered =>
        LET bymeth == SelectMethod(Data, resp.method)
        IN  resp.status \in DOMAIN bymeth =>
                LET entry == bymeth[resp.status]
                    L     == <<DateLayer(resp.datestr, resp.now),
                               DataGet(Data, "headers", Empty),
                               Get(bymeth, "headers", Empty),
                               Get(entry, "headers", Empty)>>
                IN  /\ MergedFrom(R, L)
                    /\ R.data = _make_body(resp.method, entry, CtOf(L)).data

C10Arg(g) ==
    SimpleArg(g, [on |-> TRUE, h |-> 0, s200 |-> 0, sdef |-> 3],
                 [on |-> FALSE, h |-> 0, s200 |-> 0, sdef |-> 0])

\* C10 (as claimed): GET 200 returns "it's text" and POST 500 returns "it's default".
C10_AsClaimed ==
    (Answered /\ config = C10Arg(0)) =>
        /\ (resp.method = "GET" /\ resp.status = "200") => R.data = EncodeUtf8(ItsText)
        /\ (resp.method = "POST" /\ resp.status = "500") => R.data = EncodeUtf8(ItsDefault)

\* C10 (amended): with the default Content-Type text/plain both GET 200 and POST 500
\* return "it's text"; "it's default" is returned when the Content-Type is one the
\* mapping does not name (application/json, with the global headers 2).
C10_TextUnlessOverridden ==
    \A g \in GlobalOpts :
        (Answered /\ config = C10Arg(g) /\ resp.method # "HEAD") =>
            R.data = EncodeUtf8(IF g = 2 THEN ItsDefault ELSE ItsText)

C10_Witness ==
    /\ Answered
    /\ config = C10Arg(0)
    /\ resp.method = "POST"
    /\ resp.status = "500"
    /\ R.data = EncodeUtf8(ItsText)

\* ------------------------------------- claims about ConfigurableResource

AllRequests == ReqMethods \X ReqStatuses \X {NONE, "Today"}

\* the instance a constructor call with the same configuration returns
Fresh == <<Empty, Construct(config)>>

\* C1 (as claimed): after any mutation calls followed by reset(), every request
\* gets the response a freshly constructed instance gives.
C1_AsClaimed ==
    last.op = "reset" =>
        \A q \in AllRequests :
            get_response_to(Data, q[1], q[2], q[3], 0)
                = get_response_to(Fresh, q[1], q[2], q[3], 0)

\* C2 (as claimed): no call changes the base layer maps[1].
C2_AsClaimed == [][maps1' = maps1]_vars

\* the body mapping the setters fill when called without method and status
DefaultScopeBodies == Get(Get(Get(maps0, "def", Empty), "def", Empty), "body", Empty)

NoBodyAt(block, status) == "body" \notin DOMAIN Get(block, status, Empty)

\* C7 (as claimed): a body stored at the default scope under the content type the
\* response resolves to is the body of every method and status (HEAD apart) that
\* has no more specific body configured.
C7_AsClaimed ==
    \A m \in ReqMethods \ {"HEAD"}, s \in ReqStatuses :
        LET hdrs == ResolveHeaders(Data, m, s, NONE, 0)
            ct   == IF OdHas(hdrs, "Content-Type") THEN OdGet(hdrs, "Content-Type") ELSE NoCt
            own  == DataGet(Data, m, Empty)
        IN  ( /\ ct.kind = "str"
              /\ ct.v[1] \in DOMAIN DefaultScopeBodies
              /\ NoBodyAt(own, s) /\ NoBodyAt(own, "def") /\ NoBodyAt(DefBlock, s) )
            => get_response_to(Data, m, s, NONE, 0)
                   = [err |-> "none", status |-> s, headers |-> ToHeaderDict(hdrs),
                      data |-> MkBody(DefaultScopeBodies[ct.v[1]]).data]

CtList(content_types) ==
    IF content_types.kind = "str" THEN <<content_types.v[1]>> ELSE content_types.v

\* the body mapping at the scope (method, status) of a body setter
BodiesAt(maps, method, status) ==
    LET key  == IF Falsy(method) THEN "def" ELSE Upper(method)
        skey == IF Falsy(status) THEN "def" ELSE status
    IN  Get(Get(DataGet(maps, key, Empty), skey, Empty), "body", Empty)

\* C8 (as claimed): set_text_body_for called with a str completes without error and
\* stores a text body under each content type at the scope, which encodes to the
\* text in UTF-8.
C8_AsClaimed ==
    [][\A text \in TextData, m \in MutMethods, s \in MutStatuses, c \in TextCts :
          set_text_body_for(text, m, s, c) =>
              /\ last'.err = "none"
              /\ \A i \in DOMAIN CtList(c) :
                    LET bodies == BodiesAt(<<maps0', maps1'>>, m, s)
                    IN  /\ CtList(c)[i] \in DOMAIN bodies
                        /\ MkBody(bodies[CtList(c)[i]]) = Ok(EncodeUtf8(text.d))]_vars

\* ------------------------------------------ claims about the body and defaults

\* the header layers get_response_to merges for the last request, merged
LastHeaders == ResolveHeaders(Data, resp.method, resp.status, resp.datestr, resp.now)

\* the requested content type T: the accumulated Content-Type, or "def" when the
\* headers have none (or no value for it)
RequestedCt(hdrs) ==
    IF OdHas(hdrs, "Content-Type") /\ OdGet(hdrs, "Content-Type").v # <<>>
    THEN OdGet(hdrs, "Content-Type").v[1]
    ELSE "def"

\* the accumulated Content-Type is one string, or there is none to send
StrOrNoCt(hdrs) ==
    OdHas(hdrs, "Content-Type") =>
        \/ OdGet(hdrs, "Content-Type").kind = "str"
        \/ OdGet(hdrs, "Content-Type").v = <<>>

\* the body mapping of the status block selected for the last request
LastBodies ==
    Get(SelectStatus(SelectMethod(Data, resp.method), resp.status), "body", Empty)

C12_HeadHasNoBody ==
    (resp.set /\ resp.method = "HEAD") => (R.err = "none" /\ R.data = <<>>)

\* HEAD is answered from a status block whose body another method would get
C12_Witness ==
    /\ resp.set /\ resp.method = "HEAD"
    /\ R.data = <<>>
    /\ get_response_to(<<Put(maps0, "PUT", SelectMethod(Data, "HEAD")), maps1>>, "PUT",
                       resp.status, resp.datestr, resp.now).data # <<>>

\* the resource was constructed without a configuration and has nothing set
Unconfigured == config.none /\ maps0 = Empty

\* C13: a resource constructed without configuration answers every method and
\* status with Server: http-status-server, Content-Type: text/plain and no body.
C13_DefaultResponse ==
    (resp.set /\ Unconfigured) =>
        /\ R.err = "none"
        /\ {"Server", "Content-Type"} \subseteq RespNames(R)
        /\ RespValue(R, "Server") = <<"http-status-server">>
        /\ RespValue(R, "Content-Type") = <<"text/plain">>
        /\ R.data = <<>>

C13_Witness ==
    /\ resp.set /\ Unconfigured
    /\ resp.method = "PUT" /\ resp.status = "400"
    /\ RespValue(R, "Server") = <<"http-status-server">>

\* C19 (as claimed): get_response_to completes without error after any successful
\* mutation calls, for every method, status and resolved Content-Type.
C19_AsClaimed == resp.set => R.err = "none"

\* ------------------------------------------- claims about the header setters

\* the response headers of a request for (method, status) without a date
HeadersFor(maps, method, status) ==
    [headers |-> ToHeaderDict(ResolveHeaders(maps, method, status, NONE, 0))]

Names(block, key) == OdKeys(Get(Get(block, key, Empty), "headers", <<>>))

\* name is configured for method at a scope narrower than (any method, status)
MoreSpecific(maps, method, status, name) ==
    LET own == DataGet(maps, method, Empty)
    IN  name \in OdKeys(Get(own, "headers", <<>>)) \cup Names(own, status) \cup Names(own, "def")

\* C14 (as claimed): a header set for status S and no method is in the response to
\* every method requested with status S that has no narrower setting of that
\* header, also when the method has an entry of its own for status S.
C14_AsClaimed ==
    [][\A n \in HeaderNames, v \in HeaderVals, st \in MutStatuses \ {NONE} :
          (set_header_for(n, v, NONE, st) /\ last'.err = "none") =>
              \A m \in ReqMethods :
                  ~MoreSpecific(<<maps0', maps1'>>, m, st, n) =>
                      Carries(HeadersFor(<<maps0', maps1'>>, m, st), n, v)]_vars

\* a headers node of a configuration is named by a path <<key, sub>>: the global
\* node is <<"headers", "">>, a method's own node <<method, "headers">> and its node
\* for a status <<method, status>>
NodePaths(maps) ==
    {<<"headers", "">>} \cup
    UNION {{<<k, sub>> : sub \in DOMAIN DataGet(maps, k, Empty) \cup {"headers"}} :
              k \in (DOMAIN maps[1] \cup DOMAIN maps[2]) \ {"headers"}}

HeadersAt(maps, path) ==
    IF path[1] = "headers" THEN DataGet(maps, "headers", <<>>)
    ELSE IF path[2] = "headers" THEN Get(DataGet(maps, path[1], Empty), "headers", <<>>)
    ELSE Get(Get(DataGet(maps, path[1], Empty), path[2], Empty), "headers", <<>>)

\* the node the scope rule gives for the arguments (method, status)
TargetPath(method, status) ==
    IF method = NONE
    THEN (IF status = NONE THEN <<"headers", "">> ELSE <<"def", status>>)
    ELSE (IF status = NONE THEN <<Upper(method), "headers">> ELSE <<Upper(method), status>>)

\* the node at path exists in the overlay
InOverlay(m0, path) ==
    /\ path[1] \in DOMAIN m0
    /\ path[1] # "headers" =>
          IF path[2] = "headers" THEN "headers" \in DOMAIN m0[path[1]]
          ELSE path[2] \in DOMAIN m0[path[1]] /\ "headers" \in DOMAIN m0[path[1]][path[2]]

\* a call of a header setter with the scope (method, status)
HeaderSetterCall(method, status) ==
    \/ \E n \in HeaderNames, v \in HeaderVals : set_header_for(n, v, method, status)
    \/ \E h \in HeaderMaps : set_headers_for(h, method, status)
    \/ \E n \in HeaderNames, v \in HeaderVals : add_header_for(n, v, method, status)

C16_RejectedLeavesConfig ==
    [][(nops' = nops + 1 /\ last'.err \in {"ValueError", "TypeError"}) =>
          (maps0' = maps0 /\ maps1' = maps1 /\ shared' = shared)]_vars

\* a batch with one valid and one invalid entry was rejected on a resource that had
\* nothing set: no overlay node exists
C16_Witness ==
    /\ last.op = "set_headers_for" /\ last.err = "ValueError"
    /\ nops = 1
    /\ maps0 = Empty

Sent == resp.out

\* the number of header values before the header at index i
RECURSIVE ValuesBefore(_, _)
ValuesBefore(headers, i) ==
    IF i <= 1 THEN 0 ELSE ValuesBefore(headers, i - 1) + Len(headers[i - 1].v)

\* C18: what is written is the status line (version string, a space, the status
\* and no reason phrase), for each header in insertion order one line
\* "Name: value" per value, an empty line, and then the body, every line ended by
\* CRLF; GET 202 with date Today on the default resource renders as the test's text.
C18_WireFormat ==
    (resp.set /\ R.err = "none" /\ Sent.err = "none") =>
        LET hs == R.headers
            n == ValuesBefore(hs, Len(hs) + 1)
        IN  /\ Len(Sent.head) = 4 + 4 * n + 1
            /\ SubSeq(Sent.head, 1, 4) = <<"HTTP/1.1", " ", resp.status, "\r\n">>
            /\ \A i \in DOMAIN hs : \A j \in DOMAIN hs[i].v :
                  LET at == 4 + 4 * (ValuesBefore(hs, i) + j - 1)
                  IN  SubSeq(Sent.head, at + 1, at + 4) = <<hs[i].k, ": ", hs[i].v[j], "\r\n">>
            /\ Sent.head[Len(Sent.head)] = "\r\n"
            /\ Sent.body.d = R.data
            /\ (config.none /\ resp.method = "GET" /\ resp.status = "202"
                    /\ resp.datestr = "Today") =>
                  /\ Sent.head = <<"HTTP/1.1", " ", "202", "\r\n",
                                   "Date", ": ", "Today", "\r\n",
                                   "Server", ": ", "http-status-server", "\r\n",
                                   "Content-Type", ": ", "text/plain", "\r\n",
                                   "\r\n">>
                  /\ Sent.body.d = <<>>

\* a response with a header of two values and a body was written to a text sink
C18_Witness ==
    /\ resp.set /\ Sent.err = "none" /\ resp.sink = "text"
    /\ \E i \in DOMAIN R.headers : R.headers[i].k = "X-Test" /\ Len(R.headers[i].v) = 2
    /\ Sent.body = Text(ItsDefault)

\* ------------------------------------------------ claims about threads

AllDone == calls # NoCalls /\ \A t \in Threads : calls.thr[t].pc = "done"

\* the header thread t set is stored at the node of its scope
Stored(t) ==
    LET hdrs == HeadersAt(Data, TargetPath(calls.thr[t].method, calls.thr[t].status))
    IN  OdHas(hdrs, ThreadHeader(t).name)
        /\ OdGet(hdrs, ThreadHeader(t).name) = ThreadHeader(t).val

\* C20: when the calls are serialized every header set is stored at its node once
\* they are done; an update is lost only without serialization, when both calls
\* go to the same top-level overlay entry and that entry had not been created.
C20_LostOnlyWhenInterleaved ==
    AllDone =>
        /\ calls.serialized => \A t \in Threads : Stored(t)
        /\ (\E t \in Threads : ~Stored(t)) =>
              /\ ~calls.serialized
              /\ ThreadKey(1) = ThreadKey(2)
              /\ ThreadKey(1) \notin calls.pre

\* two interleaved calls for the same scope are done and one header is missing
C20_Witness ==
    /\ AllDone
    /\ ~calls.serialized
    /\ calls.thr[1].method = calls.thr[2].method
    /\ calls.thr[1].status = calls.thr[2].status
    /\ Stored(1) /\ ~Stored(2)

\* ------------------------------------------------ claims about construction

\* the configuration the constructor was given (none is an empty one)
Supplied == IF config.none THEN Empty ELSE config.cfg

NewScope(maps, method, status) ==
    LET key == HdrKey(method, status)
    IN  /\ key # "headers"
        /\ \/ key \notin DOMAIN maps[1] \cup DOMAIN maps[2]
           \/ ~Falsy(status) /\ status \notin DOMAIN DataGet(maps, key, Empty)

\* the resolved headers for (method, status) other than name, as (name, value) pairs
OtherHeaders(maps, method, status, name) ==
    LET hs == HeadersFor(maps, method, status).headers
    IN  {<<hs[i].k, hs[i].v>> : i \in {j \in DOMAIN hs : hs[j].k # name}}

\* the outcome and body of the response to (method, status)
BodyFor(maps, method, status) ==
    LET r == get_response_to(maps, method, status, "Today", 0)
    IN  [err |-> r.err, data |-> r.data]

\* C22 (as claimed): a successful set_header_for(name, val, method, status) for a
\* scope that has no node yet changes, in the response to any request, nothing
\* but the value of header name: every other header keeps its value and, when
\* name is not Content-Type, the body is the same.
C22_AsClaimed ==
    [][\A n \in HeaderNames, v \in HeaderVals, m \in MutMethods, st \in MutStatuses :
          (/\ nops' = nops + 1
           /\ last'.op = "set_header_for"
           /\ last'.err = "none"
           /\ NewScope(Data, m, st)
           /\ set_header_for(n, v, m, st)) =>
              \A m2 \in ReqMethods, s2 \in ReqStatuses :
                 /\ OtherHeaders(<<maps0', maps1'>>, m2, s2, n) = OtherHeaders(Data, m2, s2, n)
                 /\ n # "Content-Type" =>
                       BodyFor(<<maps0', maps1'>>, m2, s2) = BodyFor(Data, m2, s2)]_vars

ReadOps == {"get_response_to", "send", "respond"}

\* the call of this step asks what the call before it asked, with a literal date,
\* and no mutation call was made in between
SameRequest ==
    /\ resp.set /\ resp'.set
    /\ resp'.method = resp.method
    /\ resp'.status = resp.status
    /\ resp'.datestr = resp.datestr
    /\ Lower(resp.datestr) # "now"

\* C23: get_response_to, send and respond change neither the overlay nor the
\* base, and a call that repeats the method, status and literal date of the call
\* before it, no mutation call in between, returns the same headers and body.
C23_ReadsLeaveConfig ==
    [][(last'.op \in ReadOps /\ resp'.set) =>
          /\ maps0' = maps0 /\ maps1' = maps1 /\ shared' = shared
          /\ SameRequest => resp'.r = resp.r]_vars

\* after two mutation calls, one of them setting a body for GET, respond was
\* called at a later time of the clock with a literal date: the answer has the
\* body and is what get_response_to gives at the earlier time
C23_Witness ==
    /\ nops = 2
    /\ last.op = "respond" /\ last.err = "none"
    /\ resp.method = "GET" /\ resp.datestr = "Today" /\ resp.now = 1
    /\ "GET" \in DOMAIN maps0
    /\ R.data # <<>>
    /\ R = get_response_to(Data, "GET", resp.status, "Today", 0)

====
